---------------------------- MODULE Spec2Model ----------------------------
(***************************************************************************)
(* Model of watermark_script.py: a command-line run that loads a watermark *)
(* overlay, walks a source tree, and writes a watermarked copy of every    *)
(* image file to the mirrored path under a destination root.               *)
(*                                                                         *)
(* Paths are sequences of components, a component is a sequence of         *)
(* one-character strings.  Python floats are IEEE-754 binary64 values,     *)
(* held as a sign, a significand and a binary exponent, and every operation  *)
(* rounds to nearest, ties to even.                                        *)
(***************************************************************************)
EXTENDS Integers, Sequences, FiniteSets, TLC

(***************************************************************************)
(* Bounds of the model.                                                    *)
(***************************************************************************)
\* Largest source image width drawn for a single-image check.
MaxWidth == 50
\* Number of times the program is run, one run after the other.
MaxRuns == 2

(***************************************************************************)
(* Floating point.  A significand is a natural number held as a            *)
(* little-endian sequence of limbs of LimbBits bits, without high zero     *)
(* limbs; a float is a sign, a significand m and an exponent e, and stands *)
(* for m * 2^e.                                                            *)
(***************************************************************************)
\* Significand width of a Python float (C double).
DoubleBits == 53
\* Significand width of the C float that ImagingBlend takes its factor as.
FloatBits == 24
LimbBits == 15
Base == 2^LimbBits

RECURSIVE Strip(_)
Strip(b) ==
    IF b = <<>> THEN <<>>
    ELSE IF b[Len(b)] = 0 THEN Strip(SubSeq(b, 1, Len(b) - 1))
    ELSE b

\* The limbs of a natural below Base^2.
Limbs(n) == Strip(<<n % Base, n \div Base>>)

\* The natural a sequence of at most two limbs stands for.
Val(b) ==
    IF Len(b) = 0 THEN 0
    ELSE IF Len(b) = 1 THEN b[1]
    ELSE b[1] + Base * b[2]

\* Number of bits of a natural below Base.
BitLenSmall(v) == CHOOSE n \in 0..LimbBits : v < 2^n /\ (n = 0 \/ v >= 2^(n - 1))

BitLen(b) == IF b = <<>> THEN 0 ELSE LimbBits * (Len(b) - 1) + BitLenSmall(b[Len(b)])

\* Bit i of b, bit 1 the least significant.
Bit(b, i) == (b[(i - 1) \div LimbBits + 1] \div 2^((i - 1) % LimbBits)) % 2

\* Whether the s lowest bits of b are all zero.
LowBitsZero(b, s) ==
    LET a == s \div LimbBits
        r == s % LimbBits
    IN  /\ \A i \in 1..Len(b) : i <= a => b[i] = 0
        /\ (r > 0 /\ a + 1 <= Len(b)) => b[a + 1] % 2^r = 0

\* floor(b / 2^s)
ShiftRight(b, s) ==
    LET a == s \div LimbBits
        r == s % LimbBits
        n == Len(b) - a
    IN  IF n <= 0 THEN <<>>
        ELSE Strip([i \in 1..n |->
                 (b[i + a] \div 2^r)
                 + (IF i + a + 1 <= Len(b)
                    THEN (b[i + a + 1] % 2^r) * 2^(LimbBits - r) ELSE 0)])

\* b * 2^s
ShiftLeft(b, s) ==
    LET a == s \div LimbBits
        r == s % LimbBits
        hi(i) == IF i <= Len(b) THEN (b[i] % 2^(LimbBits - r)) * 2^r ELSE 0
        lo(i) == IF i > 1 THEN b[i - 1] \div 2^(LimbBits - r) ELSE 0
    IN  IF b = <<>> THEN <<>>
        ELSE Strip([i \in 1..a |-> 0] \o [i \in 1..(Len(b) + 1) |-> hi(i) + lo(i)])

RECURSIVE Inc(_)
Inc(b) ==
    IF b = <<>> THEN <<1>>
    ELSE IF b[1] + 1 < Base THEN <<b[1] + 1>> \o Tail(b)
    ELSE <<0>> \o Inc(Tail(b))

\* b * k + c for naturals k, c below Base.
RECURSIVE MulSmall(_, _, _)
MulSmall(b, k, c) ==
    IF b = <<>> THEN Limbs(c)
    ELSE LET t == b[1] * k + c
         IN  <<t % Base>> \o MulSmall(Tail(b), k, t \div Base)

\* Quotient and remainder of b by a positive natural below Base.
RECURSIVE DivSmall(_, _)
DivSmall(b, d) ==
    IF b = <<>> THEN [q |-> <<>>, r |-> 0]
    ELSE LET hi == DivSmall(Tail(b), d)
             t  == Base * hi.r + b[1]
         IN  [q |-> <<t \div d>> \o hi.q, r |-> t % d]

\* m * 2^e rounded up to the next significand when up holds.
RoundUp(q, up, s) == [m |-> IF up THEN Inc(q) ELSE q, e |-> s]

\* Ties to even: up when the first bit dropped is set and either a later
\* one is (or the fraction is nonzero) or the kept significand q is odd.
RoundQuotient(b, sticky, s, q) ==
    RoundUp(q, Bit(b, s) = 1 /\ (sticky \/ ~LowBitsZero(b, s - 1) \/ q[1] % 2 = 1), s)

RoundAt(b, sticky, s) ==
    IF s <= 0 THEN [m |-> b, e |-> 0]
    ELSE RoundQuotient(b, sticky, s, ShiftRight(b, s))

\* Round the natural b (plus a nonzero fraction when sticky) to p significant
\* bits, ties to even: the result is m * 2^e.
RoundBits(b, sticky, p) == RoundAt(b, sticky, BitLen(b) - p)

MkFloat(r, neg, e) == [neg |-> neg, m |-> r.m, e |-> r.e + e]

FDivRounded(dv, p, k) == MkFloat(RoundBits(Strip(dv.q), dv.r # 0, p), FALSE, -k)

FDivScaled(n, d, p, k) == FDivRounded(DivSmall(ShiftLeft(Limbs(n), k), d), p, k)

\* The float nearest to n / d, for naturals n and d > 0, with p significant bits.
FDiv(n, d, p) ==
    IF n = 0 THEN [neg |-> FALSE, m |-> <<>>, e |-> 0]
    ELSE FDivScaled(n, d, p, p + 2 + BitLen(Limbs(d)))

\* The product k * x of a small natural and a float, rounded to p bits.
FMulInt(k, x, p) == MkFloat(RoundBits(Strip(MulSmall(x.m, k, 0)), FALSE, p), x.neg, x.e)

\* A float rounded to p significant bits (double to C float).
FRound(x, p) == MkFloat(RoundBits(x.m, FALSE, p), x.neg, x.e)

\* The magnitude of x truncated toward zero.
TruncMag(x) ==
    IF x.e >= 0 THEN Val(ShiftLeft(x.m, x.e))
    ELSE Val(ShiftRight(x.m, -x.e))

\* int(x)
FInt(x) == IF x.neg THEN -TruncMag(x) ELSE TruncMag(x)

FIsZero(x) == x.m = <<>>

\* Whether x is a whole number.
FIsWhole(x) == x.e >= 0 \/ LowBitsZero(x.m, -x.e)

\* 0 <= x
FGeZero(x) == FIsZero(x) \/ ~x.neg

\* 0 < x
FGtZero(x) == ~FIsZero(x) /\ ~x.neg

\* x <= 1
FLeOne(x) ==
    \/ x.neg
    \/ TruncMag(x) = 0
    \/ TruncMag(x) = 1 /\ FIsWhole(x)

\* A decimal literal of the command line: sign, numerator, power-of-ten
\* denominator.  float() rounds it correctly to the nearest double.
WithSign(x, neg) == [neg |-> neg, m |-> x.m, e |-> x.e]

ParseFloat(dec) == WithSign(FDiv(dec.num, dec.den, DoubleBits), dec.neg /\ dec.num # 0)


(***************************************************************************)
(* Strings and paths.                                                      *)
(***************************************************************************)
Uppers == <<"A","B","C","D","E","F","G","H","I","J","K","L","M",
            "N","O","P","Q","R","S","T","U","V","W","X","Y","Z">>
Lowers == <<"a","b","c","d","e","f","g","h","i","j","k","l","m",
            "n","o","p","q","r","s","t","u","v","w","x","y","z">>

\* str.lower(), character by character.
LowerChar(c) ==
    IF \E i \in 1..Len(Uppers) : Uppers[i] = c
    THEN Lowers[CHOOSE i \in 1..Len(Uppers) : Uppers[i] = c]
    ELSE c

Lower(s) == [i \in 1..Len(s) |-> LowerChar(s[i])]

\* str.endswith(suffix)
EndsWith(s, suffix) ==
    /\ Len(s) >= Len(suffix)
    /\ SubSeq(s, Len(s) - Len(suffix) + 1, Len(s)) = suffix

IMAGE_EXTENSIONS ==
    { <<".","j","p","g">>, <<".","j","p","e","g">>, <<".","p","n","g">>,
      <<".","g","i","f">>, <<".","b","m","p">>, <<".","t","i","f","f">>,
      <<".","w","e","b","p">> }

\* The same without lower().
IsImageNameCaseSensitive(file) == \E ext \in IMAGE_EXTENSIONS : EndsWith(file, ext)

\* file.lower().endswith(IMAGE_EXTENSIONS)
IsImageName(file) == \E ext \in IMAGE_EXTENSIONS : EndsWith(Lower(file), ext)

Dot == <<".">>
DotDot == <<".",".">>

\* os.path.join of a path and a relative path.
Join(a, b) == a \o b

Dirname(path) == SubSeq(path, 1, Len(path) - 1)

Basename(path) == path[Len(path)]

\* Length of the longest common prefix of two paths.
CommonLen(a, b) ==
    CHOOSE n \in 0..Len(a) :
        /\ n <= Len(b)
        /\ \A i \in 1..n : a[i] = b[i]
        /\ (n < Len(a) /\ n < Len(b)) => a[n + 1] # b[n + 1]

\* os.path.relpath(path, start)
Relpath(path, start) ==
    LET c == CommonLen(path, start)
        rel == [i \in 1..(Len(start) - c) |-> DotDot] \o SubSeq(path, c + 1, Len(path))
    IN  IF rel = <<>> THEN <<Dot>> ELSE rel

\* The path the file system resolves a path to: "." dropped, ".." climbed.
RECURSIVE Resolve(_)
Resolve(path) ==
    IF path = <<>> THEN <<>>
    ELSE LET front == Resolve(Dirname(path))
             last == Basename(path)
         IN  IF last = Dot THEN front
             ELSE IF last = DotDot /\ front # <<>> THEN Dirname(front)
             ELSE Append(front, last)

(***************************************************************************)
(* Images.  A pixel of an RGBA image is <<r, g, b, a>>, of an RGB image    *)
(* <<r, g, b>>, of an L image <<l>>, of an LA image <<l, a>>.               *)
(***************************************************************************)
\* Image.convert('RGBA') of one pixel.
ConvertPixelRGBA(mode, px) ==
    CASE mode = "RGBA" -> px
      [] mode = "RGB"  -> <<px[1], px[2], px[3], 255>>
      [] mode = "L"    -> <<px[1], px[1], px[1], 255>>
      [] mode = "LA"   -> <<px[1], px[1], px[1], px[2]>>

\* ImageEnhance.Brightness(band).enhance(factor) of one 8-bit value: the blend
\* of a black image and the band, with the factor taken as a C float and the
\* result cast to an 8-bit value.
Blend(v, alpha, t) ==
    IF FIsZero(alpha) THEN 0
    ELSE IF TruncMag(alpha) = 1 /\ FIsWhole(alpha) /\ ~alpha.neg THEN v
    ELSE IF FGeZero(alpha) /\ FLeOne(alpha) THEN t
    ELSE IF t <= 0 THEN 0
    ELSE IF t >= 255 THEN 255
    ELSE t

BlendWith(v, alpha) == Blend(v, alpha, FInt(FMulInt(v, alpha, FloatBits)))

EnhanceBrightness(v, factor) == BlendWith(v, FRound(factor, FloatBits))

\* The pixels of the overlay: the RGBA pixels with the alpha band enhanced.
ScaleAlpha(rgba, opacity) ==
    [i \in 1..Len(rgba) |->
        <<rgba[i][1], rgba[i][2], rgba[i][3], EnhanceBrightness(rgba[i][4], opacity)>>]

ConvertRGBA(im) == [i \in 1..Len(im.pixels) |-> ConvertPixelRGBA(im.mode, im.pixels[i])]

\* The same without the scaling of the alpha band.
adjust_opacity_unscaled(im, opacity) ==
    IF ~(FGeZero(opacity) /\ FLeOne(opacity))
    THEN [exit |-> TRUE, im |-> im]
    ELSE [exit |-> FALSE,
          im |-> [mode |-> "RGBA", size |-> im.size, pixels |-> ConvertRGBA(im)]]

\* adjust_opacity(im, opacity): the overlay, or exit = TRUE when the
\* assertion on the opacity fails and the process exits with code 1.
adjust_opacity(im, opacity) ==
    IF ~(FGeZero(opacity) /\ FLeOne(opacity))
    THEN [exit |-> TRUE, im |-> im]
    ELSE [exit |-> FALSE,
          im |-> [mode |-> "RGBA", size |-> im.size,
                  pixels |-> ScaleAlpha(ConvertRGBA(im), opacity)]]

margin == 10

\* The same with the top-right and bottom-left corners exchanged.
get_watermark_position_swapped(position, image_size, watermark_size) ==
    LET im_width == image_size[1]
        im_height == image_size[2]
        wm_width == watermark_size[1]
        wm_height == watermark_size[2]
    IN  CASE position = "top-left" -> <<margin, margin>>
          [] position = "top-right" -> <<margin, im_height - wm_height - margin>>
          [] position = "bottom-left" -> <<im_width - wm_width - margin, margin>>
          [] position = "bottom-right" ->
                <<im_width - wm_width - margin, im_height - wm_height - margin>>
          [] position = "center" ->
                <<(im_width - wm_width) \div 2, (im_height - wm_height) \div 2>>
          [] OTHER -> <<im_width - wm_width - margin, im_height - wm_height - margin>>

get_watermark_position(position, image_size, watermark_size) ==
    LET im_width == image_size[1]
        im_height == image_size[2]
        wm_width == watermark_size[1]
        wm_height == watermark_size[2]
    IN  CASE position = "top-left" -> <<margin, margin>>
          [] position = "top-right" -> <<im_width - wm_width - margin, margin>>
          [] position = "bottom-left" -> <<margin, im_height - wm_height - margin>>
          [] position = "bottom-right" ->
                <<im_width - wm_width - margin, im_height - wm_height - margin>>
          [] position = "center" ->
                <<(im_width - wm_width) \div 2, (im_height - wm_height) \div 2>>
          [] OTHER -> <<im_width - wm_width - margin, im_height - wm_height - margin>>

(***************************************************************************)
(* process_image.                                                          *)
(***************************************************************************)
\* wm_height: the watermark's height scaled by w_percent.
ScaledHeight(wm_width, watermark_size) ==
    FInt(FMulInt(watermark_size[2], FDiv(wm_width, watermark_size[1], DoubleBits),
                 DoubleBits))

Resized(wm_width, watermark_size) == <<wm_width, ScaledHeight(wm_width, watermark_size)>>

\* The resized watermark's (wm_width, wm_height) for an image of width im_width.
WatermarkSize(im_width, wm_ratio, watermark_size) ==
    Resized(FInt(FMulInt(im_width, wm_ratio, DoubleBits)), watermark_size)

non_alpha_formats == {"JPEG", "JPG", "BMP", "WEBP"}

\* The same with BMP left out of the formats without alpha.
OutputModeNoBmp(original_format, original_mode) ==
    IF original_format \in {"JPEG", "JPG", "WEBP"} THEN "RGB"
    ELSE IF original_mode # "RGBA" THEN original_mode
    ELSE "RGBA"

\* The mode of the image that is saved: the composite is RGBA.
OutputMode(original_format, original_mode) ==
    IF original_format \in non_alpha_formats THEN "RGB"
    ELSE IF original_mode # "RGBA" THEN original_mode
    ELSE "RGBA"

\* dest_path: the directory the output of image_path is written to.
DestDir(image_path, source_dir, dest_dir) ==
    LET relative_path == Relpath(Dirname(image_path), source_dir)
    IN  Join(dest_dir, relative_path)

\* The same, writing next to the source file.
DestImagePathInPlace(image_path, source_dir, dest_dir) == image_path

\* dest_image_path
DestImagePath(image_path, source_dir, dest_dir) ==
    Join(DestDir(image_path, source_dir, dest_dir), <<Basename(image_path)>>)

Prefixes(path) == {SubSeq(path, 1, k) : k \in 1..Len(path)}

Paths(files) == {f.path : f \in files}

\* os.makedirs(path, exist_ok): the directories afterwards, or ok = FALSE
\* when it raises (the leaf exists and exist_ok is off, or a file is in the way).
Makedirs(dirs, files, path, exist_ok) ==
    LET target == Resolve(path)
    IN  IF target \in dirs
        THEN [ok |-> exist_ok, dirs |-> dirs]
        ELSE IF Prefixes(target) \cap Paths(files) # {}
        THEN [ok |-> FALSE, dirs |-> dirs]
        ELSE [ok |-> TRUE, dirs |-> dirs \cup Prefixes(target)]

\* The same without exist_ok.
MakeDestDirNoExistOk(dirs, files, path) == Makedirs(dirs, files, path, FALSE)

\* os.makedirs(dest_path, exist_ok=True)
MakeDestDir(dirs, files, path) == Makedirs(dirs, files, path, TRUE)

LogEntry(level, msg, path) == [level |-> level, msg |-> msg, path |-> path]

\* The same, skipping only a negative width.
ZeroWidthNever(wm_width) == wm_width < 0

\* if wm_width == 0: the file is skipped.
ZeroWidth(wm_width) == wm_width = 0

Outcome(exc, opened, steps, skipped, placed, dirs, out) ==
    [exc |-> exc, opened |-> opened, steps |-> steps, skipped |-> skipped,
     placed |-> placed, dirs |-> dirs, out |-> out]

\* The try block from the makedirs call on: made is what os.makedirs did.
SaveSteps(file, placed, made, saved) ==
    IF ~made.ok
    THEN Outcome("FileExistsError", TRUE,
                 <<"open", "exif_transpose", "resize", "position", "composite",
                   "convert", "makedirs">>, FALSE, placed, made.dirs, <<>>)
    ELSE IF file.fault = "nowrite"
    THEN \* Image.save raises PermissionError
         Outcome("PermissionError", TRUE,
                 <<"open", "exif_transpose", "resize", "position", "composite",
                   "convert", "makedirs", "save">>, FALSE, placed, made.dirs, <<>>)
    ELSE Outcome("none", TRUE,
                 <<"open", "exif_transpose", "resize", "position", "composite",
                   "convert", "makedirs", "save">>, FALSE, placed, made.dirs,
                 <<saved>>)

\* The try block from the computation of the watermark's size on: wm is the
\* resized watermark's size, on an image of size im_size.
ResizeSteps(image_path, file, args, dirs, files, im_size, wm) ==
    IF ZeroWidth(wm[1])
    THEN Outcome("none", TRUE, <<"open", "exif_transpose">>, TRUE, <<>>, dirs, <<>>)
    ELSE IF wm[1] <= 0 \/ wm[2] <= 0
    THEN \* Image.resize: height and width must be > 0
         Outcome("ValueError", TRUE, <<"open", "exif_transpose", "resize">>,
                 FALSE, <<>>, dirs, <<>>)
    ELSE SaveSteps(file,
                   <<[size |-> wm,
                      position |-> get_watermark_position(args.position, im_size, wm)]>>,
                   MakeDestDir(dirs, files,
                               DestDir(image_path, args.source_dir, args.dest_dir)),
                   [path |-> Resolve(DestImagePath(image_path, args.source_dir,
                                                   args.dest_dir)),
                    kind |-> "image", format |-> file.format,
                    mode |-> OutputMode(file.format, file.mode)])

\* im.size after ImageOps.exif_transpose.
TransposedSize(file) ==
    IF file.rotated THEN <<file.size[2], file.size[1]>> ELSE file.size

OpenedSteps(image_path, file, watermark, args, dirs, files, im_size) ==
    ResizeSteps(image_path, file, args, dirs, files, im_size,
                WatermarkSize(im_size[1], args.size, watermark.size))

\* The body of process_image's try block, up to the first exception.
\* file holds what is on disk at image_path; dirs and files are the
\* directories and files that exist.
\*   exc: the exception raised, or "none";   opened: Image.open returned;
\*   steps: the steps attempted;   skipped: the width-0 return was taken;
\*   placed: the resized watermark's size and position;
\*   dirs: the directories afterwards;   out: the file saved, if any.
TryBlock(image_path, file, watermark, args, dirs, files) ==
    IF file.fault = "corrupt"
    THEN Outcome("UnidentifiedImageError", FALSE, <<"open">>, FALSE, <<>>, dirs, <<>>)
    ELSE IF file.fault = "noread"
    THEN Outcome("PermissionError", FALSE, <<"open">>, FALSE, <<>>, dirs, <<>>)
    ELSE IF file.fault = "truncated"
    THEN \* exif_transpose reads the pixel data
         Outcome("OSError", TRUE, <<"open", "exif_transpose">>, FALSE, <<>>, dirs, <<>>)
    ELSE OpenedSteps(image_path, file, watermark, args, dirs, files,
                     TransposedSize(file))

\* The same without the final except Exception clause.
CaughtNamedOnly(exc) == exc \in {"UnidentifiedImageError", "PermissionError"}

\* The except clauses of process_image: every exception raised in the try
\* block is an Exception.
Caught(exc) ==
    exc \in {"UnidentifiedImageError", "PermissionError", "OSError",
             "ValueError", "FileExistsError"}

\* The record process_image logs on the outcome t of its try block.
Logged(t, image_path, dest_image_path) ==
    IF t.exc = "none"
    THEN IF t.skipped
         THEN {LogEntry("WARNING", "Calculated watermark width is 0", image_path)}
         ELSE {LogEntry("INFO", "Saved watermarked image", dest_image_path)}
    ELSE IF ~Caught(t.exc) THEN {}
    ELSE IF t.exc = "UnidentifiedImageError"
    THEN {LogEntry("ERROR", "not a valid image or is corrupted", image_path)}
    ELSE IF t.exc = "PermissionError"
    THEN {LogEntry("ERROR", "Permission denied when processing", image_path)}
    ELSE {LogEntry("ERROR", "Unexpected error processing image", image_path)}

Handled(t, log) ==
    [raised |-> t.exc # "none" /\ ~Caught(t.exc), exc |-> t.exc,
     opened |-> t.opened, steps |-> t.steps, skipped |-> t.skipped,
     placed |-> t.placed, dirs |-> t.dirs, out |-> t.out, log |-> log]

ExceptClauses(t, image_path, dest_image_path) ==
    Handled(t, Logged(t, image_path, dest_image_path))

\* What one call of process_image does: the outcome of the try block, the
\* records logged, and whether an exception leaves the function.
process_image(image_path, file, watermark, args, dirs, files) ==
    ExceptClauses(TryBlock(image_path, file, watermark, args, dirs, files),
                  image_path,
                  DestImagePath(image_path, args.source_dir, args.dest_dir))

(***************************************************************************)
(* The disk.  The source tree and the watermark files are there before the *)
(* run and are never written; fsDirs and fsFiles hold what else exists.    *)
(***************************************************************************)
Name_s == <<"s">>
Name_d == <<"d">>
Name_u == <<"u">>
Name_v == <<"v">>
Name_w == <<"w">>
SourceRoot == <<Name_s>>
DestRoot == <<Name_d>>
MissingDir == <<<<"m">>>>

ImageFile(path, fault, format, mode, size, rotated) ==
    [path |-> path, fault |-> fault, format |-> format, mode |-> mode,
     size |-> size, rotated |-> rotated]

OtherFile(path) == ImageFile(path, "corrupt", "", "", <<0, 0>>, FALSE)

Tree ==
    { ImageFile(<<Name_s, <<"a",".","p","n","g">>>>, "none", "PNG", "RGBA", <<50, 30>>, FALSE),
      ImageFile(<<Name_s, <<"B",".","J","P","G">>>>, "none", "JPEG", "L", <<40, 24>>, FALSE),
      OtherFile(<<Name_s, <<"n",".","t","x","t">>>>),
      ImageFile(<<Name_s, Name_u, <<"c",".","g","i","f">>>>, "none", "GIF", "P", <<1, 9>>, FALSE),
      ImageFile(<<Name_s, Name_u, <<"x",".","p","n","g">>>>, "corrupt", "", "", <<0, 0>>, FALSE),
      OtherFile(<<Name_s, Name_u, <<"p","n","g">>>>),
      ImageFile(<<Name_s, Name_u, Name_v, <<"d",".","b","m","p">>>>, "nowrite", "BMP", "RGB", <<20, 20>>, FALSE),
      ImageFile(<<Name_s, Name_u, Name_v, <<"e",".","W","e","b","P">>>>, "noread", "WEBP", "RGBA", <<20, 20>>, FALSE),
      ImageFile(<<Name_s, Name_w, <<"t",".","t","i","f","f">>>>, "none", "TIFF", "CMYK", <<8, 60>>, TRUE),
      ImageFile(<<Name_s, Name_w, <<"k",".","j","p","e","g">>>>, "truncated", "JPEG", "RGB", <<30, 30>>, FALSE),
      OtherFile(<<Name_s, Name_w, <<"g",".","p","n","g",".","b","a","k">>>>) }

SourceDirs == UNION {Prefixes(Dirname(f.path)) : f \in Tree}

WmPath == <<<<"w","m",".","p","n","g">>>>
WmCorruptPath == <<<<"w","m",".","t","x","t">>>>
WmMissingPath == <<<<"n","o",".","p","n","g">>>>

\* The watermark files: a decodable RGB image without alpha, and a file
\* that is no image.
WatermarkFiles ==
    { [path |-> WmPath, fault |-> "none", format |-> "PNG", mode |-> "RGB",
       size |-> <<11, 11>>, pixels |-> <<<<200, 100, 50>>, <<0, 0, 0>>>>],
      [path |-> WmCorruptPath, fault |-> "corrupt", format |-> "", mode |-> "",
       size |-> <<0, 0>>, pixels |-> <<>>] }

LogName == <<"r",".","l","o","g">>
NoLogFile == <<>>

VARIABLES
    argv,       \* the command line
    args,       \* the parsed arguments
    pc,         \* where main is
    exitCode,   \* the process's exit code, once pc = "exit"
    log,        \* the records logged by this run, at INFO and above
    fsDirs,     \* the directories that exist beside the source tree's
    fsFiles,    \* the files that exist beside the source tree and the watermarks
    watermark,  \* <<overlay>> once load_watermark has returned
    opened,     \* the paths Image.open was called on in this run
    stack,      \* os.walk: the directories still to be listed
    root,       \* os.walk: the directory being iterated
    files,      \* the file names of root not yet visited
    calls,      \* image path -> number of process_image calls in this run
    results,    \* image path -> what its process_image call did
    run,        \* the number of this run
    firstOut,   \* fsFiles at the end of the first run
    probe       \* a single application of a function to drawn inputs

vars == <<argv, args, pc, exitCode, log, fsDirs, fsFiles, watermark, opened,
          stack, root, files, calls, results, run, firstOut, probe>>

runVars == <<argv, args, pc, exitCode, log, fsDirs, fsFiles, watermark, opened,
             stack, root, files, calls, results, run, firstOut>>

Dec(neg, num, den) == [neg |-> neg, num |-> num, den |-> den]

Positions == {"top-left", "top-right", "center", "bottom-right", "bottom-left"}

\* The command lines of the runs.
CommandLines ==
    [ source_dir : {SourceRoot, MissingDir},
      dest_dir : {DestRoot},
      watermark : {WmPath, WmCorruptPath, WmMissingPath},
      opacity : {Dec(FALSE, 5, 10), Dec(FALSE, 0, 10), Dec(FALSE, 15, 10), Dec(TRUE, 1, 10)},
      position : {"bottom-right", "center", "middle"},
      size : {Dec(FALSE, 2, 10), Dec(FALSE, 10, 10), Dec(FALSE, 0, 10), Dec(FALSE, 11, 10)},
      log_file : {NoLogFile, <<LogName>>, <<Name_d, LogName>>, <<Name_s, LogName>>} ]

IsDir(path, dirs) == path = <<>> \/ path \in SourceDirs \/ path \in dirs

IsFile(path, fs) == path \in Paths(Tree) \cup Paths(WatermarkFiles) \cup Paths(fs)

NoArgs == <<>>

\* parse_arguments: argparse exits with code 2 on a position that is not
\* among the choices; the opacity and the size are converted by float().
parse_arguments(cmd) ==
    IF cmd.position \notin Positions THEN NoArgs
    ELSE [source_dir |-> cmd.source_dir, dest_dir |-> cmd.dest_dir,
          watermark |-> cmd.watermark, opacity |-> ParseFloat(cmd.opacity),
          position |-> cmd.position, size |-> ParseFloat(cmd.size),
          log_file |-> cmd.log_file]

\* The same without the check of the size.
validate_arguments_no_size(a, dirs, fs) ==
    IF ~IsDir(a.source_dir, dirs) THEN "Source directory does not exist or is not a directory."
    ELSE IF ~IsFile(a.watermark, fs) THEN "Watermark image does not exist or is not a file."
    ELSE IF ~(FGeZero(a.opacity) /\ FLeOne(a.opacity)) THEN "Opacity must be between 0 and 1."
    ELSE ""

\* validate_arguments: the error it logs before sys.exit(1), or "".
validate_arguments(a, dirs, fs) ==
    IF ~IsDir(a.source_dir, dirs) THEN "Source directory does not exist or is not a directory."
    ELSE IF ~IsFile(a.watermark, fs) THEN "Watermark image does not exist or is not a file."
    ELSE IF ~(FGeZero(a.opacity) /\ FLeOne(a.opacity)) THEN "Opacity must be between 0 and 1."
    ELSE IF ~(FGtZero(a.size) /\ FLeOne(a.size)) THEN "Size must be between 0 and 1."
    ELSE ""

Loaded(exit, was_opened, overlay, error) ==
    [exit |-> exit, opened |-> was_opened, overlay |-> overlay, error |-> error]

Adjusted(adjusted) ==
    IF adjusted.exit
    THEN Loaded(TRUE, TRUE, <<>>, "Opacity must be between 0 and 1.")
    ELSE Loaded(FALSE, TRUE, <<adjusted.im>>, "")

LoadFile(file, opacity) ==
    IF file.fault # "none"
    THEN Loaded(TRUE, FALSE, <<>>, "Watermark image is not a valid image file.")
    ELSE Adjusted(adjust_opacity([mode |-> file.mode, size |-> file.size,
                                  pixels |-> file.pixels], opacity))

\* load_watermark: the overlay, or the error logged before sys.exit(1).
load_watermark(watermark_path, opacity) ==
    IF \A f \in WatermarkFiles : f.path # watermark_path
    THEN Loaded(TRUE, FALSE, <<>>, "Watermark image not found.")
    ELSE LoadFile(CHOOSE f \in WatermarkFiles : f.path = watermark_path, opacity)

(***************************************************************************)
(* main, one run after the other.                                          *)
(***************************************************************************)
NoProbe == <<>>

\* Every enumeration of a finite set.
Orders(S) ==
    {s \in [1..Cardinality(S) -> S] : \A i, j \in 1..Cardinality(S) : s[i] = s[j] => i = j}

\* The non-directory entries of a directory, by name.
FilesIn(dir, fs) == {Basename(q) : q \in {q \in Paths(Tree) \cup Paths(fs) : Dirname(q) = dir}}

\* The subdirectories of a directory.
SubdirsIn(dir, dirs) == {q \in SourceDirs \cup dirs : q # <<>> /\ Dirname(q) = dir}

Exit(code) ==
    /\ pc' = "exit"
    /\ exitCode' = code

Init ==
    /\ argv \in CommandLines
    /\ args = NoArgs
    /\ pc = "parse"
    /\ exitCode = 0
    /\ log = {}
    /\ fsDirs \in {{}, {DestRoot}}
    /\ fsFiles = {}
    /\ watermark = <<>>
    /\ opened = {}
    /\ stack = <<>>
    /\ root = <<>>
    /\ files = {}
    /\ calls = <<>>
    /\ results = <<>>
    /\ run = 1
    /\ firstOut = {}
    /\ probe = NoProbe

\* args = parse_arguments()
ParseArguments ==
    /\ pc = "parse"
    /\ args' = parse_arguments(argv)
    /\ IF args' = NoArgs
       THEN Exit(2)
       ELSE pc' = "setup_logging" /\ UNCHANGED exitCode
    /\ UNCHANGED <<argv, log, fsDirs, fsFiles, watermark, opened, stack, root,
                   files, calls, results, run, firstOut, probe>>

\* setup_logging(args.log_file, args.verbose): logging.FileHandler opens the
\* log file for appending, which creates it; without the directory it is in,
\* the FileNotFoundError reaches the handler around main.
SetupLogging ==
    /\ pc = "setup_logging"
    /\ IF args.log_file = NoLogFile
       THEN /\ pc' = "validate"
            /\ UNCHANGED <<exitCode, fsFiles, log>>
       ELSE IF IsDir(Dirname(args.log_file), fsDirs)
       THEN /\ pc' = "validate"
            /\ fsFiles' = fsFiles \cup {[path |-> args.log_file, kind |-> "log",
                                         format |-> "", mode |-> ""]}
            /\ UNCHANGED <<exitCode, log>>
       ELSE /\ Exit(1)
            /\ log' = log \cup {LogEntry("CRITICAL", "An unexpected error occurred", args.log_file)}
            /\ UNCHANGED fsFiles
    /\ UNCHANGED <<argv, args, fsDirs, watermark, opened, stack, root, files,
                   calls, results, run, firstOut, probe>>

Validated(error) ==
    IF error = ""
    THEN pc' = "load_watermark" /\ UNCHANGED <<exitCode, log>>
    ELSE Exit(1) /\ log' = log \cup {LogEntry("ERROR", error, <<>>)}

\* validate_arguments(args)
ValidateArguments ==
    /\ pc = "validate"
    /\ Validated(validate_arguments(args, fsDirs, fsFiles))
    /\ UNCHANGED <<argv, args, fsDirs, fsFiles, watermark, opened, stack, root,
                   files, calls, results, run, firstOut, probe>>

LoadWatermarkDone(loaded) ==
    /\ opened' = IF loaded.opened THEN opened \cup {args.watermark} ELSE opened
    /\ watermark' = loaded.overlay
    /\ IF loaded.exit
       THEN /\ Exit(1)
            /\ log' = log \cup {LogEntry("ERROR", loaded.error, args.watermark)}
            /\ UNCHANGED stack
       ELSE /\ pc' = "walk"
            /\ log' = log \cup {LogEntry("INFO", "Starting processing images", args.source_dir)}
            /\ stack' = <<args.source_dir>>
            /\ UNCHANGED exitCode

\* watermark = load_watermark(args.watermark, args.opacity), and the start of
\* the walk of args.source_dir.
LoadWatermark ==
    /\ pc = "load_watermark"
    /\ LoadWatermarkDone(load_watermark(args.watermark, args.opacity))
    /\ UNCHANGED <<argv, args, fsDirs, fsFiles, root, files, calls, results,
                   run, firstOut, probe>>

\* os.walk: the next directory is listed, its subdirectories are pushed.
WalkDir ==
    /\ pc = "walk"
    /\ files = {}
    /\ stack # <<>>
    /\ root' = Head(stack)
    /\ files' = FilesIn(Head(stack), fsFiles)
    /\ \E subdirs \in Orders(SubdirsIn(Head(stack), fsDirs)) :
           stack' = subdirs \o Tail(stack)
    /\ UNCHANGED <<argv, args, pc, exitCode, log, fsDirs, fsFiles, watermark,
                   opened, calls, results, run, firstOut, probe>>

\* The state after a call of process_image that did r.  An exception that
\* left process_image would reach the handler around main.
Called(image_path, r) ==
    /\ calls' = IF image_path \in DOMAIN calls
                THEN [calls EXCEPT ![image_path] = @ + 1]
                ELSE calls @@ (image_path :> 1)
    /\ results' = IF image_path \in DOMAIN results
                  THEN [results EXCEPT ![image_path] = r]
                  ELSE results @@ (image_path :> r)
    /\ opened' = IF r.opened THEN opened \cup {image_path} ELSE opened
    /\ fsDirs' = r.dirs
    /\ fsFiles' = IF r.out = <<>> THEN fsFiles
                  ELSE {f \in fsFiles : f.path # r.out[1].path} \cup {r.out[1]}
    /\ IF r.raised
       THEN /\ Exit(1)
            /\ log' = log \cup {LogEntry("CRITICAL", "An unexpected error occurred", image_path)}
       ELSE /\ log' = log \cup r.log
            /\ UNCHANGED <<pc, exitCode>>

\* A file whose name ends with an image extension: process_image is called.
VisitImage ==
    /\ pc = "walk"
    /\ \E file \in files :
           /\ IsImageName(file)
           /\ files' = files \ {file}
           /\ Called(Join(root, <<file>>),
                     process_image(Join(root, <<file>>),
                                   CHOOSE f \in Tree : f.path = Join(root, <<file>>),
                                   watermark[1], args, fsDirs, fsFiles))
    /\ UNCHANGED <<argv, args, watermark, stack, root, run, firstOut, probe>>

\* Any other file is skipped.
SkipFile ==
    /\ pc = "walk"
    /\ \E file \in files :
           /\ ~IsImageName(file)
           /\ files' = files \ {file}
    /\ UNCHANGED <<argv, args, pc, exitCode, log, fsDirs, fsFiles, watermark,
                   opened, stack, root, calls, results, run, firstOut, probe>>

\* The walk is over: main returns and the process exits with code 0.
Finish ==
    /\ pc = "walk"
    /\ files = {}
    /\ stack = <<>>
    /\ Exit(0)
    /\ log' = log \cup {LogEntry("INFO", "Watermarking process completed.", <<>>)}
    /\ firstOut' = IF run = 1 THEN fsFiles ELSE firstOut
    /\ UNCHANGED <<argv, args, fsDirs, fsFiles, watermark, opened, stack, root,
                   files, calls, results, run, probe>>

\* The program is run again with the same command line, on the disk as the
\* run before left it.
Rerun ==
    /\ pc = "exit"
    /\ exitCode = 0
    /\ run < MaxRuns
    /\ run' = run + 1
    /\ pc' = "parse"
    /\ args' = NoArgs
    /\ log' = {}
    /\ watermark' = <<>>
    /\ opened' = {}
    /\ root' = <<>>
    /\ calls' = <<>>
    /\ results' = <<>>
    /\ UNCHANGED <<argv, exitCode, fsDirs, fsFiles, stack, files, firstOut, probe>>

Next ==
    \/ ParseArguments
    \/ SetupLogging
    \/ ValidateArguments
    \/ LoadWatermark
    \/ WalkDir
    \/ VisitImage
    \/ SkipFile
    \/ Finish
    \/ Rerun

Spec == Init /\ [][Next]_vars

(***************************************************************************)
(* process_image applied once to a drawn image, watermark size, size       *)
(* fraction and position, on a disk without or with the destination root.  *)
(***************************************************************************)
ProbePath == <<Name_s, <<"a",".","p","n","g">>>>
ProbeDeepPath == <<Name_s, Name_u, Name_v, <<"a",".","p","n","g">>>>

\* The formats and modes of the drawn images, as Image.open reports them.
FormatModes ==
    { <<"JPEG", "RGB">>, <<"JPEG", "L">>, <<"JPEG", "CMYK">>, <<"MPO", "RGB">>,
      <<"PNG", "RGBA">>, <<"PNG", "RGB">>, <<"PNG", "P">>, <<"PNG", "LA">>,
      <<"GIF", "P">>, <<"GIF", "L">>, <<"BMP", "RGB">>, <<"BMP", "P">>,
      <<"BMP", "L">>, <<"TIFF", "RGBA">>, <<"TIFF", "CMYK">>, <<"TIFF", "1">>,
      <<"WEBP", "RGBA">>, <<"WEBP", "RGB">> }

Faults == {"none", "corrupt", "noread", "truncated", "nowrite"}

SizeFractions ==
    {Dec(FALSE, 1, 100), Dec(FALSE, 2, 10), Dec(FALSE, 58, 100), Dec(FALSE, 7, 10),
     Dec(FALSE, 10, 10)}

WatermarkSizes == {<<11, 11>>, <<30, 10>>, <<3, 27>>}

ImageInput(file, watermark_size, size, position, dirs) ==
    [file |-> file, watermark_size |-> watermark_size, size |-> size,
     position |-> position, dirs |-> dirs]

\* Images of every width up to MaxWidth, at every position.
GeometryInputs ==
    { ImageInput(ImageFile(ProbePath, "none", "PNG", "RGBA", <<w, h>>, FALSE),
                 ws, size, position, {DestRoot}) :
        w \in 1..MaxWidth, h \in {12, 40}, ws \in WatermarkSizes,
        size \in SizeFractions, position \in Positions \cup {"middle"} }

\* Images of every format, mode and fault, upright and rotated.
FormatInputs ==
    { ImageInput(ImageFile(path, fault, fm[1], fm[2], <<40, 24>>, rotated),
                 <<11, 11>>, Dec(FALSE, 2, 10), "bottom-right", dirs) :
        path \in {ProbePath, ProbeDeepPath}, fault \in Faults, fm \in FormatModes,
        rotated \in BOOLEAN, dirs \in {{}, {DestRoot}} }

ProbeArgs(in) ==
    [source_dir |-> SourceRoot, dest_dir |-> DestRoot, watermark |-> WmPath,
     opacity |-> ParseFloat(Dec(FALSE, 5, 10)), position |-> in.position,
     size |-> ParseFloat(in.size), log_file |-> NoLogFile]

IdleRun ==
    /\ argv = <<>>
    /\ args = NoArgs
    /\ pc = "probe"
    /\ exitCode = 0
    /\ log = {}
    /\ fsDirs = {}
    /\ fsFiles = {}
    /\ watermark = <<>>
    /\ opened = {}
    /\ stack = <<>>
    /\ root = <<>>
    /\ files = {}
    /\ calls = <<>>
    /\ results = <<>>
    /\ run = 1
    /\ firstOut = {}

InitImage ==
    /\ IdleRun
    /\ probe \in {[in |-> in, out |-> <<>>] : in \in GeometryInputs \cup FormatInputs}

ApplyProcessImage ==
    /\ pc = "probe"
    /\ probe.out = <<>>
    /\ probe' = [probe EXCEPT !.out =
                    <<process_image(probe.in.file.path, probe.in.file,
                                    [size |-> probe.in.watermark_size],
                                    ProbeArgs(probe.in), probe.in.dirs, {})>>]
    /\ UNCHANGED runVars

NextImage == ApplyProcessImage

SpecImage == InitImage /\ [][NextImage]_vars

(***************************************************************************)
(* adjust_opacity applied once to a drawn image and opacity.               *)
(***************************************************************************)
Opacities ==
    {Dec(FALSE, 0, 10), Dec(FALSE, 1, 10), Dec(FALSE, 29, 100), Dec(FALSE, 5, 10),
     Dec(FALSE, 7, 10), Dec(FALSE, 99, 100), Dec(FALSE, 10, 10),
     Dec(FALSE, 15, 10), Dec(TRUE, 5, 10)}

\* The largest value of an 8-bit band.
MaxBand == 255

OpacityImages ==
    { [mode |-> "RGBA", size |-> <<2, 1>>, pixels |-> <<<<10, 20, 30, a>>, <<1, 2, 3, 128>>>>] :
        a \in 0..MaxBand }
    \cup
    { [mode |-> "LA", size |-> <<2, 1>>, pixels |-> <<<<77, a>>, <<9, 255>>>>] :
        a \in 0..MaxBand }
    \cup
    { [mode |-> "RGB", size |-> <<2, 1>>, pixels |-> <<<<200, 100, 50>>, <<0, 0, 0>>>>],
      [mode |-> "L", size |-> <<2, 1>>, pixels |-> <<<<9>>, <<240>>>>] }

InitOpacity ==
    /\ IdleRun
    /\ probe \in {[im |-> im, opacity |-> o, out |-> <<>>] :
                    im \in OpacityImages, o \in Opacities}

ApplyAdjustOpacity ==
    /\ pc = "probe"
    /\ probe.out = <<>>
    /\ probe' = [probe EXCEPT !.out =
                    <<adjust_opacity(probe.im, ParseFloat(probe.opacity))>>]
    /\ UNCHANGED runVars

NextOpacity == ApplyAdjustOpacity

SpecOpacity == InitOpacity /\ [][NextOpacity]_vars

(***************************************************************************)
(* Properties of the runs (Spec).                                          *)
(***************************************************************************)
IsPrefix(a, b) == Len(a) <= Len(b) /\ SubSeq(b, 1, Len(a)) = a

\* path is the directory top or lies under it.
IsUnder(path, top) == IsPrefix(top, path)

\* The path under the destination root that mirrors a path under the source root.
Mirror(path) == DestRoot \o SubSeq(path, Len(SourceRoot) + 1, Len(path))

\* The files of the source tree whose names end with an image extension.
ExpectedImages ==
    { <<Name_s, <<"a",".","p","n","g">>>>,
      <<Name_s, <<"B",".","J","P","G">>>>,
      <<Name_s, Name_u, <<"c",".","g","i","f">>>>,
      <<Name_s, Name_u, <<"x",".","p","n","g">>>>,
      <<Name_s, Name_u, Name_v, <<"d",".","b","m","p">>>>,
      <<Name_s, Name_u, Name_v, <<"e",".","W","e","b","P">>>>,
      <<Name_s, Name_w, <<"t",".","t","i","f","f">>>>,
      <<Name_s, Name_w, <<"k",".","j","p","e","g">>>> }

\* The other files that can be in the source tree.
OtherFiles ==
    { <<Name_s, <<"n",".","t","x","t">>>>,
      <<Name_s, Name_u, <<"p","n","g">>>>,
      <<Name_s, Name_w, <<"g",".","p","n","g",".","b","a","k">>>>,
      <<Name_s, LogName>> }

Completed == pc = "exit" /\ exitCode = 0

ErrorLoggedFor(path) == \E e \in log : e.level = "ERROR" /\ e.path = path

\* A file that cannot be processed, of each kind, is in the tree.
FailureOf(exc) == \E p \in DOMAIN results : results[p].exc = exc

\* C1: a source image that cannot be identified, cannot be read or written
\* for lack of permission, or fails in any other way while it is processed
\* has an error logged for it and does not end the run: no exception leaves
\* process_image, and once the walk has started the process exits only with
\* code 0, after every image file of the tree was handed to process_image.
C1_FailuresDoNotAbort ==
    /\ \A p \in DOMAIN results :
           /\ ~results[p].raised
           /\ results[p].exc # "none" => ErrorLoggedFor(p)
    /\ (pc = "exit" /\ watermark # <<>>) =>
           /\ exitCode = 0
           /\ DOMAIN results = ExpectedImages

C1_Witness ==
    /\ Completed
    /\ FailureOf("UnidentifiedImageError")
    /\ FailureOf("PermissionError")
    /\ FailureOf("OSError")
    /\ \E p \in DOMAIN results : results[p].out # <<>>

\* The command line fails validation: the source directory is missing, the
\* watermark file is missing, the opacity is outside [0, 1] or the size is
\* outside (0, 1].
InvalidCommandLine ==
    \/ argv.source_dir # SourceRoot
    \/ argv.watermark = WmMissingPath
    \/ argv.opacity.neg /\ argv.opacity.num > 0
    \/ argv.opacity.num > argv.opacity.den
    \/ argv.size.neg
    \/ argv.size.num = 0
    \/ argv.size.num > argv.size.den

ErrorLogged == \E e \in log : e.level \in {"ERROR", "CRITICAL"}

\* What C2 and its amended form share: the run of a parsed, invalid command
\* line never loads the watermark, opens no image, calls process_image for
\* no file, creates no directory, and exits with code 1 after an error was
\* logged.
StopsAtValidation ==
    /\ pc \notin {"load_watermark", "walk"}
    /\ watermark = <<>>
    /\ opened = {}
    /\ calls = <<>>
    /\ fsDirs \subseteq {DestRoot}
    /\ pc = "exit" => exitCode = 1 /\ ErrorLogged

\* C2 as stated: on a command line that fails validation the process exits
\* with code 1 after logging an error, without loading the watermark or
\* opening any image, and no file at all exists under the destination root.
C2_NothingUnderDestination ==
    (args # NoArgs /\ InvalidCommandLine) =>
        /\ StopsAtValidation
        /\ \A f \in fsFiles : ~IsUnder(f.path, DestRoot)

\* C2, amended: on a command line that fails validation the process exits
\* with code 1 after logging an error, without loading the watermark or
\* opening any image, and the only file that can have been created under
\* the destination root is the log file named by --log_file.
C2_OnlyLogFileUnderDestination ==
    (args # NoArgs /\ InvalidCommandLine) =>
        /\ StopsAtValidation
        /\ \A f \in fsFiles :
               IsUnder(f.path, DestRoot) => f.kind = "log" /\ f.path = argv.log_file

C2_Witness ==
    /\ pc = "exit"
    /\ exitCode = 1
    /\ args # NoArgs
    /\ argv.size.num = 0
    /\ argv.log_file = <<Name_d, LogName>>
    /\ <<Name_d, LogName>> \in Paths(fsFiles)
    /\ \E e \in log : e.level = "ERROR" /\ e.msg = "Size must be between 0 and 1."

\* C4: in a run, process_image is called exactly once for every file of the
\* tree whose name ends, in any letter case, with .jpg, .jpeg, .png, .gif,
\* .bmp, .tiff or .webp, and for no other file; a file with another name is
\* never opened and no file appears at its relative path in the destination.
C4_ExactlyTheImageFiles ==
    /\ \A p \in DOMAIN calls : p \in ExpectedImages /\ calls[p] = 1
    /\ Completed => DOMAIN calls = ExpectedImages
    /\ \A p \in OtherFiles \cap (Paths(Tree) \cup Paths(fsFiles)) :
           /\ p \notin opened
           /\ p \notin DOMAIN results
           /\ Mirror(p) \notin Paths(fsFiles)

C4_Witness ==
    /\ Completed
    /\ DOMAIN calls = ExpectedImages
    /\ argv.log_file = <<Name_s, LogName>>
    /\ <<Name_s, Name_u, Name_v, <<"e",".","W","e","b","P">>>> \in DOMAIN calls

TiffPath == <<Name_s, Name_w, <<"t",".","t","i","f","f">>>>
GifPath == <<Name_s, Name_u, <<"c",".","g","i","f">>>>

SourceFile(path) == CHOOSE f \in Tree : f.path = path

\* C5: every output is written at the destination root joined with its
\* source's path relative to the source root, in a directory made on demand,
\* and makedirs never fails on a directory that exists; a later run with the
\* same arguments processes every sound image again and leaves the very same
\* files, each overwritten in place.
C5_MirroredAndRepeatable ==
    /\ \A p \in DOMAIN results :
           /\ results[p].exc # "FileExistsError"
           /\ SourceFile(p).fault = "none" => results[p].exc = "none"
           /\ results[p].out # <<>> =>
                  /\ results[p].out[1].path = Mirror(p)
                  /\ Mirror(p) \in Paths(fsFiles)
                  /\ Prefixes(Dirname(Mirror(p))) \subseteq fsDirs
    /\ \A f, g \in fsFiles : f.path = g.path => f = g
    /\ (run >= 2 /\ Completed) => fsFiles = firstOut

C5_Witness ==
    /\ run >= 2
    /\ Completed
    /\ TiffPath \in DOMAIN results
    /\ results[TiffPath].out # <<>>
    /\ <<Name_d, Name_w, <<"t",".","t","i","f","f">>>> \in Paths(firstOut)

\* The width of an image after the EXIF transposition.
UprightWidth(f) == IF f.rotated THEN f.size[2] ELSE f.size[1]

\* int(im_width * wm_ratio) for the image at a path.
ComputedWidth(path) == FInt(FMulInt(UprightWidth(SourceFile(path)), args.size, DoubleBits))

AttemptedNoneOf(steps, names) == \A i \in DOMAIN steps : steps[i] \notin names

\* C7: an image for which the watermark width is computed as 0 is skipped
\* with a warning: it is not resized, composited or saved, nothing is written
\* for it in the destination, no error is raised, and the run goes on to
\* complete with code 0.
C7_ZeroWidthSkipped ==
    /\ \A p \in DOMAIN results :
           (SourceFile(p).fault \in {"none", "nowrite"} /\ ComputedWidth(p) = 0) =>
               /\ results[p].skipped
               /\ results[p].exc = "none"
               /\ ~results[p].raised
               /\ AttemptedNoneOf(results[p].steps,
                                  {"resize", "position", "composite", "convert",
                                   "makedirs", "save"})
               /\ results[p].out = <<>>
               /\ Mirror(p) \notin Paths(fsFiles)
               /\ \E e \in log : e.level = "WARNING" /\ e.path = p
               /\ ~ErrorLoggedFor(p)
    /\ (pc = "exit" /\ DOMAIN results # {}) => exitCode = 0

C7_Witness ==
    /\ Completed
    /\ GifPath \in DOMAIN results
    /\ results[GifPath].skipped
    /\ \E p \in DOMAIN results : results[p].out # <<>>

\* The files and directories that exist under the source root beside the
\* source tree itself.
AddedUnderSource ==
    {f.path : f \in {f \in fsFiles : IsUnder(f.path, argv.source_dir)}}
        \cup {d \in fsDirs : IsUnder(d, argv.source_dir)}

\* Every write of process_image went to a path under the destination root.
WritesUnderDestination ==
    \A p \in DOMAIN results :
        /\ results[p].out # <<>> => IsUnder(results[p].out[1].path, DestRoot)
        /\ \A d \in results[p].dirs : IsUnder(d, DestRoot)

\* C10 as stated: with neither root inside the other, a run creates or
\* changes no file or directory under the source root; every write and every
\* directory creation targets the destination root.
C10_SourceUntouched ==
    /\ AddedUnderSource = {}
    /\ WritesUnderDestination

\* C10, amended: with neither root inside the other, the only file a run can
\* create or change under the source root is the log file named by
\* --log_file; every image written and every directory made by process_image
\* is under the destination root.
C10_SourceUntouchedButLog ==
    /\ AddedUnderSource \subseteq {argv.log_file}
    /\ \A f \in fsFiles : IsUnder(f.path, argv.source_dir) => f.kind = "log"
    /\ WritesUnderDestination

C10_Witness ==
    /\ Completed
    /\ argv.log_file = <<Name_s, LogName>>
    /\ <<Name_s, LogName>> \in Paths(fsFiles)
    /\ \E p \in DOMAIN results : results[p].out # <<>>
    /\ FailureOf("PermissionError")

(***************************************************************************)
(* Properties of process_image (SpecImage).                                *)
(***************************************************************************)
\* process_image was applied and placed a watermark.
Placed == probe.out # <<>> /\ probe.out[1].placed # <<>>

UprightHeight(f) == IF f.rotated THEN f.size[1] ELSE f.size[2]

\* The corner (x, y) at a named position for an image W x H and a watermark w x h.
AtPosition(position, W, H, w, h, x, y) ==
    /\ position = "top-left" => x = 10 /\ y = 10
    /\ position = "top-right" => x = W - w - 10 /\ y = 10
    /\ position = "bottom-left" => x = 10 /\ y = H - h - 10
    /\ position = "bottom-right" => x = W - w - 10 /\ y = H - h - 10
    /\ position = "center" =>
           /\ 2 * x <= W - w /\ W - w <= 2 * x + 1
           /\ 2 * y <= H - h /\ H - h <= 2 * y + 1

\* C3: the top-left corner of the placed watermark is (10, 10) at top-left,
\* (W-w-10, 10) at top-right, (10, H-h-10) at bottom-left, (W-w-10, H-h-10)
\* at bottom-right and (floor((W-w)/2), floor((H-h)/2)) at center, for an
\* image W x H after transposition and a resized watermark w x h.
C3_PositionFormulas ==
    Placed =>
        AtPosition(probe.in.position,
                   UprightWidth(probe.in.file), UprightHeight(probe.in.file),
                   probe.out[1].placed[1].size[1], probe.out[1].placed[1].size[2],
                   probe.out[1].placed[1].position[1], probe.out[1].placed[1].position[2])

C3_Witness ==
    /\ Placed
    /\ probe.in.position = "center"
    /\ probe.out[1].placed[1].size[2] > UprightHeight(probe.in.file)
    /\ (probe.out[1].placed[1].size[2] - UprightHeight(probe.in.file)) % 2 = 1
    /\ (UprightWidth(probe.in.file) - probe.out[1].placed[1].size[1]) % 2 = 1

\* process_image was applied and saved its output.
Saved == probe.out # <<>> /\ probe.out[1].out # <<>>

\* C6: a saved output has the format of its source; its mode is RGB when
\* that format is JPEG, BMP or WEBP, and the source's mode otherwise (RGBA
\* for an RGBA source).
C6_FormatAndMode ==
    Saved =>
        /\ probe.out[1].out[1].format = probe.in.file.format
        /\ probe.in.file.format \in {"JPEG", "BMP", "WEBP"} =>
               probe.out[1].out[1].mode = "RGB"
        /\ probe.in.file.format \notin {"JPEG", "BMP", "WEBP"} =>
               probe.out[1].out[1].mode = probe.in.file.mode

C6_Witness ==
    /\ Saved
    /\ probe.in.file.format = "BMP"
    /\ probe.in.file.mode = "P"
    /\ probe.in.file.rotated
    /\ probe.out[1].out[1].mode = "RGB"

Abs(n) == IF n < 0 THEN -n ELSE n

\* The placed size w x h against the image width W, the size fraction
\* num/den and the overlay's size ow x oh.
FloorAndAspect(W, num, den, ow, oh, w, h) ==
    /\ w = (W * num) \div den
    /\ Abs(h * ow - w * oh) < ow

\* C8: the placed watermark is exactly floor(W x f) wide, and its height
\* differs from placed width x overlay height / overlay width by less than 1.
C8_FloorAndAspect ==
    Placed =>
        FloorAndAspect(UprightWidth(probe.in.file),
                       probe.in.size.num, probe.in.size.den,
                       probe.in.watermark_size[1], probe.in.watermark_size[2],
                       probe.out[1].placed[1].size[1], probe.out[1].placed[1].size[2])

(***************************************************************************)
(* Properties of adjust_opacity (SpecOpacity).                             *)
(***************************************************************************)
\* The alpha of a pixel of the watermark file: 255 without an alpha channel.
OriginalAlpha(mode, px) ==
    IF mode = "RGBA" THEN px[4] ELSE IF mode = "LA" THEN px[2] ELSE 255

\* The colour of a pixel of the watermark file, as red, green and blue.
OriginalColor(mode, px) ==
    IF mode \in {"RGBA", "RGB"} THEN <<px[1], px[2], px[3]>> ELSE <<px[1], px[1], px[1]>>

\* The overlay's pixel out against the file's pixel px, for the opacity num/den.
AlphaScaled(mode, px, out, num, den) ==
    /\ <<out[1], out[2], out[3]>> = OriginalColor(mode, px)
    /\ out[4] \in 0..255
    /\ Abs(out[4] * den - OriginalAlpha(mode, px) * num) <= den
    /\ num = 0 => out[4] = 0
    /\ num = den => out[4] = OriginalAlpha(mode, px)

InUnitInterval(dec) == ~(dec.neg /\ dec.num > 0) /\ dec.num <= dec.den

\* C9: for an opacity o in [0, 1] adjust_opacity returns an RGBA overlay with
\* the colours of the watermark file and, pixel by pixel, its alpha (255
\* without an alpha channel) times o, to within one level; o = 0 gives alpha
\* 0 and o = 1 the alpha unchanged; for any other opacity it returns no
\* overlay, the process exits.
C9_AlphaScaledByOpacity ==
    probe.out # <<>> =>
        IF InUnitInterval(probe.opacity)
        THEN /\ ~probe.out[1].exit
             /\ probe.out[1].im.mode = "RGBA"
             /\ probe.out[1].im.size = probe.im.size
             /\ Len(probe.out[1].im.pixels) = Len(probe.im.pixels)
             /\ \A i \in 1..Len(probe.im.pixels) :
                    AlphaScaled(probe.im.mode, probe.im.pixels[i],
                                probe.out[1].im.pixels[i],
                                probe.opacity.num, probe.opacity.den)
        ELSE probe.out[1].exit

C9_Witness ==
    /\ probe.out # <<>>
    /\ ~probe.out[1].exit
    /\ probe.im.mode = "LA"
    /\ probe.opacity = Dec(FALSE, 29, 100)
    /\ probe.im.pixels[1][2] = 100
    /\ probe.out[1].im.pixels[1][4] \in {28, 29}
    /\ probe.out[1].im.pixels[2] = <<9, 9, 9, 73>>

=============================================================================
